---- MODULE Spec2Model ----
(***************************************************************************)
(* d2s-rs: the save container (src/src/main.rs), the attribute block codec *)
(* (src/src/stats.rs) and the file offsets (src/src/file.rs).              *)
(*                                                                         *)
(* A byte buffer (Vec<u8>, &[u8]) is a sequence of numbers 0..255; the     *)
(* byte at offset o is element o + 1.  A binary stream (the String of '0'  *)
(* and '1' built by load_binary_stream) is a sequence of numbers 0..1; the *)
(* character at position p is element p + 1.  Offsets, positions and the   *)
(* values of the model are the ones the code computes.                     *)
(***************************************************************************)
EXTENDS Integers, Sequences, FiniteSets, TLC

VARIABLES
    \* The save container and its attribute block (Spec)
    data,           \* D2SaveFile.data (before load: the bytes of the file read)
    stats,          \* D2SaveFile.stats.stats : Vec<StatsInfo>
    skills_offset,  \* D2SaveFile.skills_offset
    pc,             \* "start" | "loaded" | "error" (load returned Err) | "panicked"
    err,            \* the Err message or the panic that ended the program, "" if none
    op,             \* the last operation run: [name, kind, value, prev]
    nops,           \* number of operations run after load
    edited,         \* TRUE once set_stats has run
    layout,         \* how the file read was built (see LayoutFile)
    \* The bit-sequence adapter alone (SpecAdapter)
    bytes,          \* the byte range given to load_binary_stream
    range,          \* the byte range save_binary_stream writes into
    stream,         \* the String load_binary_stream returned
    apc,            \* "start" | "encoded" | "decoded" | "panicked"
    \* file_checksum alone (SpecChecksum)
    ckRun,          \* the first file: CkFile(ckRun), see bufA
    ckOffset,       \* the second file differs from it at this offset,
    ckByte,         \*   where it holds this byte, see bufB
    sumA,           \* what file_checksum returned on bufA
    sumB,           \* what file_checksum returned on bufB
    overflow_checks \* the build: TRUE with overflow checks (debug), FALSE without

mvars == <<data, stats, skills_offset, pc, err, op, nops, edited, layout>>
avars == <<bytes, range, stream, apc>>
cvars == <<ckRun, ckOffset, ckByte, sumA, sumB, overflow_checks>>
vars == <<mvars, avars, cvars>>

----------------------------------------------------------------------------
(* Bounds of the model.                                                    *)

\* Number of tagged fields in the attribute block of a generated file.
MaxFields == 2
\* Whole bytes of padding in front of (at the head of) the fields.
MaxPadBytes == 1
\* Operations run on a loaded file.
MaxOps == 2

----------------------------------------------------------------------------
(* Program constants.                                                      *)

\* FileOffset::Checksum, FileOffset::CharacterStats
Checksum == 12
CharacterStats == 767
\* StatsKind::GoldStash
GoldStash == 15
\* parse_stats: let id_size = 9
id_size == 9
\* The 'if' header of the Skills section
MarkerI == 105
MarkerF == 102

----------------------------------------------------------------------------
(* Rust slices and strings.                                                *)

\* s[a..b]
Slice(s, a, b) == SubSeq(s, a + 1, b)

Min(S) == CHOOSE x \in S : \A y \in S : x <= y

Max(S) == CHOOSE x \in S : \A y \in S : x >= y

\* u32::from_str_radix(s, 2) / u16::from_str_radix / u8::from_str_radix on a
\* non-empty string of binary digits that fits the type.
RECURSIVE FromStrRadix(_)
FromStrRadix(s) ==
    IF Len(s) = 0 THEN 0
    ELSE 2 * FromStrRadix(SubSeq(s, 1, Len(s) - 1)) + s[Len(s)]

\* format!("{:b}", value): the binary digits of value, no leading zero, "0" for 0.
RECURSIVE Binary(_)
Binary(value) ==
    IF value < 2 THEN <<value>> ELSE Binary(value \div 2) \o <<value % 2>>

Zeros(n) == [i \in 1..n |-> 0]

\* A plausible slip: "{:b}" instead of "{:0width$b}" (no zero padding).
FormatUnpadded(value, width) == Binary(value)

\* format!("{:0width$b}", value, width = width): at least width digits, left-padded
\* with zeros; a value of more than width digits is printed in full.
Format(value, width) ==
    LET b == Binary(value)
    IN  IF Len(b) >= width THEN b ELSE Zeros(width - Len(b)) \o b

\* A plausible slip: the range starts one position late.
ReplaceRangeShifted(s, a, b, with) ==
    Slice(s, 0, a + 1) \o with \o Slice(s, b + 1, Len(s))

\* String::replace_range(a..b, with), for a <= b <= s.len()
ReplaceRange(s, a, b, with) ==
    Slice(s, 0, a) \o with \o Slice(s, b, Len(s))

----------------------------------------------------------------------------
(* stats.rs                                                                *)

\* The bit sizes pushed by stats_info, in the order of StatsKind 0..15.
StatsSizes == <<10, 10, 10, 10, 10, 8, 21, 21, 21, 21, 21, 21, 7, 32, 25, 25>>

\* Stats::stats_info with StatsInfo::new: offset 0, value 0.
stats_info ==
    [i \in 1..Len(StatsSizes) |->
        [kind |-> i - 1, size |-> StatsSizes[i], offset |-> 0, value |-> 0]]

\* FromPrimitive::from_u16(id) as Option<StatsKind> is Some
IsStatsKind(id) == id \in 0..15

\* A plausible slip: bytes taken from the lowest address to the highest.
LoadBinaryStreamForward(d) ==
    [p \in 1..(8 * Len(d)) |->
        LET byte == d[((p - 1) \div 8) + 1]
            bit == (p - 1) % 8
        IN  (byte \div (2 ^ (7 - bit))) % 2]

\* Stats::load_binary_stream: for offset in (0..len).rev(), push "{:08b}" of the byte.
LoadBinaryStream(d) ==
    [p \in 1..(8 * Len(d)) |->
        LET byte == d[Len(d) - ((p - 1) \div 8)]
            bit == (p - 1) % 8
        IN  (byte \div (2 ^ (7 - bit))) % 2]

\* Stats::save_binary_stream, the loop from data_offset on.  The slice
\* [stream_offset..stream_offset + 8] panics past the end of the string; the index
\* data_size - data_offset - 1 panics (overflow check) or wraps and is out of
\* bounds once data_offset reaches data_size: a panic in every build.  Bytes
\* written before the panic stay written.
RECURSIVE SaveBinaryLoop(_, _, _)
SaveBinaryLoop(d, binary_stream, data_offset) ==
    LET stream_offset == 8 * data_offset
        data_size == Len(d)
    IN  IF ~(stream_offset < Len(binary_stream))
        THEN [panic |-> "", data |-> d]
        ELSE IF stream_offset + 8 > Len(binary_stream)
        THEN [panic |-> "save_binary_stream: slice out of range", data |-> d]
        ELSE IF data_size - data_offset - 1 < 0
        THEN [panic |-> "save_binary_stream: index out of range", data |-> d]
        ELSE SaveBinaryLoop(
                [d EXCEPT ![data_size - data_offset - 1 + 1] =
                    FromStrRadix(Slice(binary_stream, stream_offset, stream_offset + 8))],
                binary_stream, data_offset + 1)

SaveBinaryStream(d, binary_stream) == SaveBinaryLoop(d, binary_stream, 0)

\* A plausible slip: the scan goes on after GoldStash.
IsTerminalNever(kind) == FALSE

\* parse_stats: if kind == StatsKind::GoldStash { return; }
IsTerminal(kind) == kind = GoldStash

\* A plausible slip: an unknown id ends the scan (break) and the fields read so far
\* are returned.
UnknownIdBreaks(id, st) == [panic |-> "", stats |-> st]

\* parse_stats: panic!("Found unknown stats id: {}", id)
UnknownId(id, st) == [panic |-> "Found unknown stats id", stats |-> st]

\* Stats::parse_stats, the 'main loop from the cursor `offset` on.
\* offset -= s.size with offset < s.size: a panic with overflow checks; without
\* them offset wraps, offset + s.size wraps back and the slice start is past its
\* end: a panic in every build.
RECURSIVE ParseLoop(_, _, _)
ParseLoop(binary_stream, offset, st) ==
    IF ~(offset >= id_size) THEN [panic |-> "", stats |-> st]
    ELSE
    LET o1 == offset - id_size
        id == FromStrRadix(Slice(binary_stream, o1, o1 + id_size))
    IN  IF ~IsStatsKind(id) THEN UnknownId(id, st)
        ELSE
        LET hits == {i \in 1..Len(st) : st[i].kind = id}
        IN  IF hits = {} THEN [panic |-> "", stats |-> st]   \* break
            ELSE
            LET i == Min(hits)
                s == st[i]
            IN  IF o1 < s.size
                THEN [panic |-> "parse_stats: offset out of range", stats |-> st]
                ELSE
                LET o2 == o1 - s.size
                    value == FromStrRadix(Slice(binary_stream, o2, o2 + s.size))
                    st2 == [st EXCEPT ![i] = [s EXCEPT !.value = value, !.offset = o2]]
                IN  IF IsTerminal(id) THEN [panic |-> "", stats |-> st2]
                    ELSE ParseLoop(binary_stream, o2, st2)

ParseStats(d, st) ==
    LET binary_stream == LoadBinaryStream(d)
    IN  ParseLoop(binary_stream, Len(binary_stream), st)

\* Stats::load
StatsLoad(d) == ParseStats(d, stats_info)

\* A plausible slip: every record is written, parsed or not.
WrittenAlways(s) == TRUE

\* Stats::save: if stats.offset > 0
Written(s) == s.offset > 0

\* Stats::save, the loop over self.stats from record i on.
RECURSIVE SaveLoop(_, _, _)
SaveLoop(st, i, binary_stream) ==
    IF i > Len(st) THEN binary_stream
    ELSE SaveLoop(st, i + 1,
            IF Written(st[i])
            THEN ReplaceRange(binary_stream, st[i].offset, st[i].offset + st[i].size,
                              Format(st[i].value, st[i].size))
            ELSE binary_stream)

\* Stats::save
StatsSave(st, d) == SaveBinaryStream(d, SaveLoop(st, 1, LoadBinaryStream(d)))

\* Stats::set
StatsSet(st, kind, value) ==
    LET hits == {i \in 1..Len(st) : st[i].kind = kind /\ st[i].offset # 0}
    IN  IF hits = {} THEN [panic |-> "Failed to set stats", stats |-> st]
        ELSE [panic |-> "", stats |-> [st EXCEPT ![Min(hits)].value = value]]

----------------------------------------------------------------------------
(* main.rs                                                                 *)

\* D2SaveFile::skills_offset, the loop from `offset` on (data.len() >= 2).
RECURSIVE SkillsScan(_, _)
SkillsScan(d, offset) ==
    IF offset <= Len(d) - 2
    THEN IF d[offset + 1] = MarkerI /\ d[offset + 2] = MarkerF
         THEN [tag |-> "Some", offset |-> offset]
         ELSE SkillsScan(d, offset + 1)
    ELSE [tag |-> "None", offset |-> 0]

\* D2SaveFile::skills_offset.  data.len() - 2 with data.len() < 2: a panic with
\* overflow checks; without them it wraps to usize::MAX - 1 or - 0, the loop is
\* entered and data[767] is out of bounds: a panic in every build.
SkillsOffset(d) ==
    IF Len(d) < 2 THEN [tag |-> "panic", offset |-> 0]
    ELSE SkillsScan(d, CharacterStats)

\* &data[CharacterStats..skills_offset]
Block(d, so) == Slice(d, CharacterStats, so)

\* data with the bytes of [CharacterStats..skills_offset] replaced
WithBlock(d, so, b) == Slice(d, 0, CharacterStats) \o b \o Slice(d, so, Len(d))

----------------------------------------------------------------------------
(* The files read.  A generated file is a 767-byte header, an attribute    *)
(* block, the 'if' marker and 30 skill bytes.  Its block is described by   *)
(* `layout`: the tagged fields in the order the scan meets them (the first *)
(* field lies at the tail of the binary stream) and the padding in front   *)
(* of them.  The block is built bit by bit from the layout, independently  *)
(* of the codec's operators.                                               *)

\* The (id, value) pairs a generated block is made of.  Ids 16 and 511 are not
\* ids of StatsKind and carry no value.
FieldSamples ==
    { [id |-> 0,   value |-> 45],          \* Strength
      [id |-> 12,  value |-> 30],          \* Level
      [id |-> 12,  value |-> 127],         \* Level, all ones
      [id |-> 13,  value |-> 123456],      \* Experience
      [id |-> 15,  value |-> 33554431],    \* GoldStash, all ones
      [id |-> 16,  value |-> 0],
      [id |-> 511, value |-> 0] }

\* The (kind, value) pairs set_stats is called with.
SetSamples ==
    { <<0, 60>>, <<0, 1024>>,      \* Strength: 10 bits
      <<12, 31>>, <<12, 128>>,     \* Level: 7 bits
      <<1, 5>> }                   \* Energy

FieldWidth(id) == IF id \in 0..15 THEN StatsSizes[id + 1] ELSE 0

\* v in exactly w binary digits, most significant first
RECURSIVE Bits(_, _)
Bits(v, w) == IF w = 0 THEN <<>> ELSE Bits(v \div 2, w - 1) \o <<v % 2>>

RECURSIVE BitsValue(_)
BitsValue(b) == IF b = <<>> THEN 0 ELSE 2 * BitsValue(SubSeq(b, 1, Len(b) - 1)) + b[Len(b)]

\* whether v is below 2^w (w up to 32)
Fits(v, w) == Len(Binary(v)) <= w

FieldBits(f) == Bits(f.value, FieldWidth(f.id)) \o Bits(f.id, id_size)

RECURSIVE FieldsBits(_)
FieldsBits(fields) ==
    IF fields = <<>> THEN <<>> ELSE FieldsBits(Tail(fields)) \o FieldBits(Head(fields))

PadLen(l) == ((8 - (Len(FieldsBits(l.fields)) % 8)) % 8) + 8 * l.padBytes

LayoutStream(l) == [i \in 1..PadLen(l) |-> l.padBit] \o FieldsBits(l.fields)

\* The bytes whose binary stream is s: the byte at the highest address holds the
\* first 8 positions.
StreamBytes(s) ==
    LET n == Len(s) \div 8
    IN  [k \in 1..n |-> BitsValue(SubSeq(s, 8 * (n - k) + 1, 8 * (n - k) + 8))]

\* Header magic 0xaa55aa55 (little-endian) at offset 0, zeros up to offset 767.
Header == [i \in 1..CharacterStats |-> IF i \in {1, 3} THEN 85 ELSE IF i \in {2, 4} THEN 170 ELSE 0]

Marker == <<MarkerI, MarkerF>>

LayoutFile(l) == Header \o StreamBytes(LayoutStream(l)) \o Marker \o Zeros(30)

RECURSIVE SeqsUpTo(_, _)
SeqsUpTo(S, n) ==
    IF n = 0 THEN {<<>>}
    ELSE LET shorter == SeqsUpTo(S, n - 1)
         IN  shorter \cup {Append(q, x) : q \in shorter, x \in S}

Layouts ==
    [fields : SeqsUpTo(FieldSamples, MaxFields), padBytes : 0..MaxPadBytes,
     padBit : 0..1, raw : {FALSE}]

NoLayout == [fields |-> <<>>, padBytes |-> 0, padBit |-> 0, raw |-> TRUE]

\* Files built byte by byte: too short for a marker, with no marker, with the
\* marker only below offset 767 or across it, with two markers.
RawFiles ==
    { <<>>, <<MarkerI>>, Marker, <<0, 0>>,
      SubSeq(Header, 1, CharacterStats - 1),
      Header,
      Header \o <<MarkerI>>,
      Header \o <<0, 0>>,
      SubSeq(Header, 1, CharacterStats - 1) \o Marker,
      SubSeq(Header, 1, 100) \o Marker \o Zeros(700),
      Header \o <<0, 0, 0>> \o Marker \o <<7>> \o Marker \o Zeros(30),
      Header \o <<MarkerF, MarkerI, MarkerI>> \o Marker,
      Header \o Marker }

\* the smallest offset >= 767 of a marker, -1 if none
FirstMarker(d) ==
    LET S == {o \in CharacterStats..(Len(d) - 2) : d[o + 1] = MarkerI /\ d[o + 2] = MarkerF}
    IN  IF S = {} THEN -1 ELSE Min(S)

NoOp == [name |-> "", kind |-> 0, value |-> 0, prev |-> ""]

MainInit ==
    /\ \/ /\ layout \in Layouts
          /\ data = LayoutFile(layout)
          \* the block of the layout ends at the first marker
          /\ FirstMarker(data) = CharacterStats + Len(LayoutStream(layout)) \div 8
       \/ /\ layout = NoLayout
          /\ data \in RawFiles
    /\ stats = stats_info
    /\ skills_offset = 0
    /\ pc = "start"
    /\ err = ""
    /\ op = NoOp
    /\ nops = 0
    /\ edited = FALSE

\* D2SaveFile::load, after std::fs::read
Load ==
    /\ pc = "start"
    /\ op' = [NoOp EXCEPT !.name = "load"]
    /\ UNCHANGED <<avars, cvars>>
    /\ UNCHANGED <<data, nops, edited, layout>>
    /\ LET so == SkillsOffset(data)
       IN  IF so.tag = "panic"
           THEN /\ pc' = "panicked"
                /\ err' = "skills_offset: index out of range"
                /\ UNCHANGED <<stats, skills_offset>>
           ELSE IF so.tag = "None"
           THEN /\ pc' = "error"
                /\ err' = "Skills section not found, invalid file format?"
                /\ UNCHANGED <<stats, skills_offset>>
           ELSE LET r == StatsLoad(Block(data, so.offset))
                IN  IF r.panic # ""
                    THEN /\ pc' = "panicked"
                         /\ err' = r.panic
                         /\ UNCHANGED <<stats, skills_offset>>
                    ELSE /\ pc' = "loaded"
                         /\ err' = ""
                         /\ stats' = r.stats
                         /\ skills_offset' = so.offset

\* D2SaveFile::set_stats: Stats::set, then Stats::save on the block.
SetStats(kind, value) ==
    /\ pc = "loaded"
    /\ nops < MaxOps
    /\ nops' = nops + 1
    /\ edited' = TRUE
    /\ op' = [name |-> "set_stats", kind |-> kind, value |-> value, prev |-> op.name]
    /\ UNCHANGED <<avars, cvars>>
    /\ UNCHANGED <<skills_offset, layout>>
    /\ LET r == StatsSet(stats, kind, value)
       IN  IF r.panic # ""
           THEN /\ pc' = "panicked"
                /\ err' = r.panic
                /\ UNCHANGED <<stats, data>>
           ELSE LET w == StatsSave(r.stats, Block(data, skills_offset))
                IN  /\ stats' = r.stats
                    /\ data' = WithBlock(data, skills_offset, w.data)
                    /\ pc' = IF w.panic = "" THEN "loaded" ELSE "panicked"
                    /\ err' = w.panic

\* Stats::save on the block, with no set before it
SaveStats ==
    /\ pc = "loaded"
    /\ nops < MaxOps
    /\ nops' = nops + 1
    /\ op' = [NoOp EXCEPT !.name = "save", !.prev = op.name]
    /\ UNCHANGED <<avars, cvars>>
    /\ UNCHANGED <<stats, skills_offset, edited, layout>>
    /\ LET w == StatsSave(stats, Block(data, skills_offset))
       IN  /\ data' = WithBlock(data, skills_offset, w.data)
           /\ pc' = IF w.panic = "" THEN "loaded" ELSE "panicked"
           /\ err' = w.panic

\* Stats::load on the block as it is now
Reload ==
    /\ pc = "loaded"
    /\ nops < MaxOps
    /\ nops' = nops + 1
    /\ op' = [NoOp EXCEPT !.name = "reload", !.prev = op.name]
    /\ UNCHANGED <<avars, cvars>>
    /\ UNCHANGED <<data, skills_offset, edited, layout>>
    /\ LET r == StatsLoad(Block(data, skills_offset))
       IN  IF r.panic # ""
           THEN /\ pc' = "panicked"
                /\ err' = r.panic
                /\ UNCHANGED stats
           ELSE /\ pc' = "loaded"
                /\ err' = ""
                /\ stats' = r.stats

----------------------------------------------------------------------------
(* The bit-sequence adapter alone: load_binary_stream on a byte range, then *)
(* save_binary_stream of the result into a range of the same length.        *)

\* Length of the byte range given to the adapter.
MaxRange == 3

ByteSamples == {0, 1, 128, 165, 255}

ByteRanges == SeqsUpTo(ByteSamples, MaxRange)

AdapterInit ==
    /\ bytes \in ByteRanges
    /\ range \in {bytes, Zeros(Len(bytes))}
    /\ stream = <<>>
    /\ apc = "start"

Encode ==
    /\ apc = "start"
    /\ stream' = LoadBinaryStream(bytes)
    /\ apc' = "encoded"
    /\ UNCHANGED <<bytes, range, mvars, cvars>>

Decode ==
    /\ apc = "encoded"
    /\ LET w == SaveBinaryStream(range, stream)
       IN  /\ range' = w.data
           /\ apc' = IF w.panic = "" THEN "decoded" ELSE "panicked"
    /\ UNCHANGED <<bytes, stream, mvars, cvars>>

----------------------------------------------------------------------------
(* file_checksum alone.  A u32 is a pair of 16-bit halves [hi, lo].         *)

Half == 2 ^ 16

U32(hi, lo) == [hi |-> hi, lo |-> lo]

\* u32::rotate_left(1)
RotateLeft1(x) ==
    U32((2 * x.hi + x.lo \div 32768) % Half, (2 * x.lo + x.hi \div 32768) % Half)

\* x + (value as u32): the sum modulo 2^32 and whether it overflowed
AddByte(x, value) ==
    LET lo == x.lo + value
        hi == x.hi + lo \div Half
    IN  [sum |-> U32(hi % Half, lo % Half), overflow |-> hi >= Half]

\* D2SaveFile::set(offset, value): the four bytes of value, little-endian
SetLong(d, offset, value) ==
    [d EXCEPT ![offset + 1] = value.lo % 256,
              ![offset + 2] = value.lo \div 256,
              ![offset + 3] = value.hi % 256,
              ![offset + 4] = value.hi \div 256]

\* file_checksum, one turn of the loop `for value in tail`:
\* checksum = checksum.rotate_left(1) + (*value as u32).  The sum overflows u32:
\* a panic in a build with overflow checks, the sum modulo 2^32 in a build
\* without.  After a panic nothing more is computed.
ChecksumStep(acc, value, checks) ==
    IF acc.panic # "" THEN acc
    ELSE LET r == AddByte(RotateLeft1(acc.value), value)
         IN  IF r.overflow /\ checks
             THEN [panic |-> "attempt to add with overflow", value |-> acc.value]
             ELSE [panic |-> "", value |-> r.sum]

\* The loop over elements i..j of the buffer, in order (the range is halved to
\* keep the evaluation shallow; the turns run first to last).
RECURSIVE ChecksumLoop(_, _, _, _, _)
ChecksumLoop(d, i, j, acc, checks) ==
    IF i > j THEN acc
    ELSE IF i = j THEN ChecksumStep(acc, d[i], checks)
    ELSE LET m == (i + j) \div 2
             first == ChecksumLoop(d, i, m, acc, checks)
         IN  IF first.panic # "" THEN first
             ELSE ChecksumLoop(d, m + 1, j, first, checks)

\* D2SaveFile::file_checksum in a build with (checks) or without overflow checks
FileChecksum(d, checks) ==
    LET clone == SetLong(d, Checksum, U32(0, 0))
    IN  IF Len(clone) = 0 THEN [panic |-> "", value |-> U32(0, 0)]
        ELSE ChecksumLoop(clone, 2, Len(clone),
                          [panic |-> "", value |-> U32(0, clone[1])], checks)

\* Files a D2SaveFile holds after load: header, an empty block, marker, skills.
\* From offset 34 on the header holds `run` bytes 0xff.
CkFile(run) ==
    [i \in 1..CharacterStats |-> IF i - 1 \in 34..(34 + run - 1) THEN 255 ELSE Header[i]]
        \o Marker \o Zeros(30)

CkRuns == {0, 4, 31}

\* Offsets of the byte changed, none of them in the checksum field 12..15
CkOffsets == {0, 11, 16, 34, 64, 65, 766, 769, 798}

\* D2SaveFile.data of the first file, and of the second, which differs from it in
\* one byte
bufA == CkFile(ckRun)

bufB == [bufA EXCEPT ![ckOffset + 1] = ckByte]

NotComputed == [panic |-> "not computed", value |-> U32(0, 0)]

ChecksumInit ==
    /\ overflow_checks \in BOOLEAN
    /\ ckRun \in CkRuns
    /\ ckOffset \in CkOffsets
    /\ ckByte \in ByteSamples
    /\ ckByte # bufA[ckOffset + 1]
    /\ sumA = NotComputed
    /\ sumB = NotComputed

ChecksumA ==
    /\ sumA = NotComputed
    /\ sumA' = FileChecksum(bufA, overflow_checks)
    /\ UNCHANGED <<ckRun, ckOffset, ckByte, sumB, overflow_checks, mvars, avars>>

ChecksumB ==
    /\ sumB = NotComputed
    /\ sumB' = FileChecksum(bufB, overflow_checks)
    /\ UNCHANGED <<ckRun, ckOffset, ckByte, sumA, overflow_checks, mvars, avars>>

----------------------------------------------------------------------------
(* Specifications.  Each one runs its own part and holds the others idle.  *)

MainIdle ==
    /\ data = <<>> /\ stats = stats_info /\ skills_offset = 0 /\ pc = "idle"
    /\ err = "" /\ op = NoOp /\ nops = 0 /\ edited = FALSE /\ layout = NoLayout

AdapterIdle == bytes = <<>> /\ range = <<>> /\ stream = <<>> /\ apc = "idle"

ChecksumIdle ==
    /\ ckRun = 0 /\ ckOffset = 0 /\ ckByte = 0
    /\ sumA = NotComputed /\ sumB = NotComputed /\ overflow_checks = FALSE

Init == MainInit /\ AdapterIdle /\ ChecksumIdle

Next ==
    \/ Load
    \/ \E s \in SetSamples : SetStats(s[1], s[2])
    \/ SaveStats
    \/ Reload

Spec == Init /\ [][Next]_vars

AdapterNext == Encode \/ Decode

InitAdapter == MainIdle /\ AdapterInit /\ ChecksumIdle

SpecAdapter == InitAdapter /\ [][AdapterNext]_vars

ChecksumNext == ChecksumA \/ ChecksumB

InitChecksum == MainIdle /\ AdapterIdle /\ ChecksumInit

SpecChecksum == InitChecksum /\ [][ChecksumNext]_vars

----------------------------------------------------------------------------
(* What the claims speak of, stated without the codec's operators.         *)

\* The logical bit sequence of a byte range: the bytes from the highest address
\* to the lowest, each most significant bit first.
RECURSIVE LogicalBits(_)
LogicalBits(b) ==
    IF b = <<>> THEN <<>>
    ELSE Bits(b[Len(b)], 8) \o LogicalBits(SubSeq(b, 1, Len(b) - 1))

\* The fields of a layout the scan reaches and consumes: those with a catalogued
\* id that no unknown id and no GoldStash precedes.
Consumed(l) ==
    {i \in 1..Len(l.fields) :
        /\ l.fields[i].id \in 0..15
        /\ \A m \in 1..(i - 1) : l.fields[m].id \in 0..14}

\* The first field, if the scan reaches it, that is a GoldStash / has an unknown id
TerminalAt(l) == {i \in Consumed(l) : l.fields[i].id = GoldStash}

UnknownAt(l) ==
    {i \in 1..Len(l.fields) :
        /\ l.fields[i].id \notin 0..15
        /\ \A m \in 1..(i - 1) : l.fields[m].id \in 0..14}

RECURSIVE BitsUpTo(_, _)
BitsUpTo(fields, i) ==
    IF i = 0 THEN 0
    ELSE BitsUpTo(fields, i - 1) + id_size + FieldWidth(fields[i].id)

\* Position in the logical bit sequence where the value of field i starts
FieldOffset(l, i) == Len(LayoutStream(l)) - BitsUpTo(l.fields, i)

\* The records after a scan that consumed fields 1..j of the layout and no more
Expected(l, j) ==
    [k \in 1..Len(StatsSizes) |->
        LET occ == {i \in 1..j : l.fields[i].id = k - 1}
        IN  IF occ = {} THEN [kind |-> k - 1, size |-> StatsSizes[k], offset |-> 0, value |-> 0]
            ELSE [kind |-> k - 1, size |-> StatsSizes[k],
                  offset |-> FieldOffset(l, Max(occ)), value |-> l.fields[Max(occ)].value]]

\* The scan reads no id out of the padding: it stopped at a GoldStash, or fewer
\* than 9 bits are left in front of the fields.
PadUnread(l) == TerminalAt(l) # {} \/ PadLen(l) < id_size

\* The records of kind `kind` that set and save treat as present
PresentIdx(st, kind) == {i \in 1..Len(st) : st[i].kind = kind /\ st[i].offset # 0}

\* From buffer d to buffer d2 nothing changed outside the block [767, so), and in
\* the block's logical bit sequence nothing outside [off, off + w).
FrameKept(d, d2, so, off, w) ==
    /\ Len(d2) = Len(d)
    /\ \A o \in 0..(Len(d) - 1) : (o < CharacterStats \/ o >= so) => d2[o + 1] = d[o + 1]
    /\ LET b == LogicalBits(Block(d, so))
           b2 == LogicalBits(Block(d2, so))
       IN  \A p \in 0..(Len(b) - 1) : (p < off \/ p >= off + w) => b2[p + 1] = b[p + 1]

\* The bits [off, off + w) of the block's logical bit sequence
Span(d, so, off, w) == Slice(LogicalBits(Block(d, so)), off, off + w)

----------------------------------------------------------------------------
(* The claims.                                                             *)

\* C1: set_stats(k, v) on a kind that is present, with v below 2^width(k), ends
\* normally, stores v in the record and in the bits [offset(k), offset(k) +
\* width(k)) of the block, and changes no other bit of the block and no byte of
\* the buffer outside [767, skills_offset).
C1_SetStatsChangesOnlySpan ==
    [][(/\ op'.name = "set_stats"
        /\ pc = "loaded"
        /\ PresentIdx(stats, op'.kind) # {}
        /\ Fits(op'.value, FieldWidth(op'.kind)))
       => LET i == Min(PresentIdx(stats, op'.kind))
          IN  /\ pc' = "loaded"
              /\ stats' = [stats EXCEPT ![i].value = op'.value]
              /\ FrameKept(data, data', skills_offset, stats[i].offset, stats[i].size)
              /\ Span(data', skills_offset, stats[i].offset, stats[i].size)
                    = Bits(op'.value, stats[i].size)]_vars

\* Strength 45 and Level 30 were parsed, Strength was set to 60 and written back.
C1_Witness ==
    /\ op.name = "set_stats" /\ op.kind = 0 /\ op.value = 60 /\ nops = 1
    /\ pc = "loaded"
    /\ ~layout.raw /\ Len(layout.fields) = 2
    /\ stats[1].value = 60 /\ stats[1].offset # 0
    /\ stats[13].value = 30 /\ stats[13].offset # 0
    /\ data # LayoutFile(layout)

\* C2: on a block that parsed, Stats::save with no set before it leaves the bytes
\* as they were, and Stats::load after it yields the value and the offset of
\* every record of the first parse.
C2_SaveReloadIdempotent ==
    [][(/\ op'.name \in {"save", "reload"}
        /\ pc = "loaded"
        /\ ~edited)
       => (pc' = "loaded" /\ data' = data /\ stats' = stats)]_vars

\* load, save, load on a block where the Level tag occurs twice
C2_Witness ==
    /\ op.name = "reload" /\ op.prev = "save" /\ nops = 2 /\ ~edited
    /\ pc = "loaded"
    /\ ~layout.raw /\ Len(layout.fields) = 2
    /\ layout.fields[1].id = 12 /\ layout.fields[2].id = 12
    /\ layout.fields[1].value # layout.fields[2].value
    /\ stats[13].value = layout.fields[2].value

\* C3: load_binary_stream yields the bytes from the highest address to the lowest,
\* each most significant bit first, and save_binary_stream of that stream into a
\* range of the same length ends normally with the range equal to the bytes
\* encoded.
C3_RoundTrip ==
    /\ apc # "panicked"
    /\ apc \in {"encoded", "decoded"} => stream = LogicalBits(bytes)
    /\ apc = "decoded" => range = bytes

\* three different bytes went through the adapter
C3_Witness ==
    /\ apc = "decoded"
    /\ bytes = <<1, 128, 165>>
    /\ range = bytes

\* C4 (the claim as stated): every record marked present holds a value below
\* 2^width, and a set_stats with a value of 2^width or more changes no bit
\* outside the field's span.
C4_ValuesFitOrRejected ==
    [][/\ \A i \in 1..Len(stats') :
            stats'[i].offset # 0 => Fits(stats'[i].value, stats'[i].size)
       /\ (/\ op'.name = "set_stats"
           /\ pc = "loaded"
           /\ PresentIdx(stats, op'.kind) # {}
           /\ ~Fits(op'.value, FieldWidth(op'.kind)))
          => LET i == Min(PresentIdx(stats, op'.kind))
             IN  FrameKept(data, data', skills_offset, stats[i].offset, stats[i].size)]_vars

\* C5 (the claim as stated): load on any buffer either finds the smallest offset
\* o >= 767 of the marker or, when there is none, returns Err; skills_offset
\* fails in no other way.
C5_LocatorTotal ==
    op.name = "load" =>
        IF FirstMarker(data) # -1
        THEN /\ err # "skills_offset: index out of range"
             /\ err # "Skills section not found, invalid file format?"
             /\ pc = "loaded" => skills_offset = FirstMarker(data)
        ELSE pc = "error"

\* C6: when the scan reads an id outside 0..15 before a GoldStash was consumed,
\* load ends in the panic "Found unknown stats id" and yields no D2SaveFile: no
\* record, no skills_offset, whatever number of fields was consumed before.
C6_UnknownIdFailsWhole ==
    (op.name = "load" /\ ~layout.raw /\ UnknownAt(layout) # {})
    => /\ pc = "panicked"
       /\ err = "Found unknown stats id"
       /\ stats = stats_info
       /\ skills_offset = 0

\* an unknown id after a consumed field
C6_Witness ==
    /\ op.name = "load" /\ pc = "panicked"
    /\ ~layout.raw /\ Len(layout.fields) = 2
    /\ layout.fields[1].id = 0 /\ layout.fields[2].id = 16

\* C7: when the scan consumes a GoldStash, load ends normally and the records are
\* those of the fields up to and including it; whatever lies in front of it
\* (fields, unknown ids, padding of any length and content) changes nothing.
C7_TerminalStopsScan ==
    (op.name = "load" /\ ~layout.raw /\ TerminalAt(layout) # {})
    => /\ pc = "loaded"
       /\ stats = Expected(layout, Min(TerminalAt(layout)))

\* a GoldStash with an unknown id and 13 bits of ones in front of it
C7_Witness ==
    /\ op.name = "load" /\ pc = "loaded"
    /\ ~layout.raw /\ Len(layout.fields) = 2
    /\ layout.fields[1].id = GoldStash /\ layout.fields[2].id = 511
    /\ layout.padBytes = 1 /\ layout.padBit = 1
    /\ stats[16].value = 33554431

\* C8 (the claim as stated): on two buffers of equal length that differ in one
\* byte outside the checksum field, file_checksum returns two different values.
C8_ChecksumDiffers ==
    (/\ sumA # NotComputed /\ sumB # NotComputed
     /\ LET a == bufA
            b == bufB
        IN  /\ Len(a) = Len(b)
            /\ {o \in 0..(Len(a) - 1) : a[o + 1] # b[o + 1]} = {ckOffset}
     /\ ckOffset \notin Checksum..(Checksum + 3))
    => /\ sumA.panic = "" /\ sumB.panic = ""
       /\ sumA.value # sumB.value

\* C9 (the claim as stated): after load, set_stats on the kind of a field the scan
\* consumed (the last one of that kind), with a value below 2^width, ends
\* normally and the field's span holds the value.
C9_ConsumedFieldIsPresent ==
    (/\ op.name = "set_stats" /\ nops = 1
     /\ ~layout.raw /\ PadUnread(layout)
     /\ \E i \in Consumed(layout) : layout.fields[i].id = op.kind
     /\ Fits(op.value, FieldWidth(op.kind)))
    => LET i == Max({j \in Consumed(layout) : layout.fields[j].id = op.kind})
       IN  /\ pc = "loaded"
           /\ Span(data, skills_offset, FieldOffset(layout, i), FieldWidth(op.kind))
                 = Bits(op.value, FieldWidth(op.kind))

\* C10 (the claim as stated): when every id the scan reads is catalogued (the
\* fields' ids are, and zero padding reads as id 0), load ends normally.
C10_KnownIdsParse ==
    (/\ op.name = "load"
     /\ ~layout.raw
     /\ \A i \in 1..Len(layout.fields) : layout.fields[i].id \in 0..15
     /\ layout.padBit = 0)
    => pc = "loaded"

====
